---------------------------- MODULE Spec2Model ----------------------------
(***************************************************************************)
(* Model of the coursework programs of the repository:                     *)
(*   - the Roman/Arabic numeral converter (Cpp/lista_2: ArabRzym, main),   *)
(*   - the recursive Pascal-triangle row (lista_1: WierszTrojkataPascala). *)
(*                                                                         *)
(* A std::string is a sequence of one-character strings.  The code indexes *)
(* from 0; the model keeps the code's 0-based indices and reads element k  *)
(* of a sequence s as s[k + 1].                                            *)
(***************************************************************************)
EXTENDS Integers, Sequences, FiniteSets, TLC

VARIABLES
    enc,      \* activation of ArabRzym::arab2rzym (stepwise)
    back,     \* what rzym2arab returns for the string arab2rzym produced
    dec,      \* activation of ArabRzym::rzym2arab (stepwise)
    cls,      \* a string and what the two classifiers return for it
    argv,     \* converter main: argv[1..argc-1]
    argi,     \* converter main: the loop index i
    out,      \* converter main: the lines written to stdout
    mainpc,   \* converter main: where it is, or how it ended
    wiersze,  \* the live WierszTrojkataPascala objects, outermost first
    pytanie   \* the last call of MtyElementWiersza and its outcome

romanVars == <<enc, back, dec>>
mainVars == <<argv, argi, out, mainpc>>
pascalVars == <<wiersze, pytanie>>
vars == <<enc, back, dec, cls, argv, argi, out, mainpc, wiersze, pytanie>>

-----------------------------------------------------------------------------
(* Bounds of the model.                                                    *)

\* the classifiers are called with every string of at most MaxClassLen
\* characters of Chars
MaxClassLen == 3
\* the converter's main is run with every list of at most MaxArgs arguments
\* of ArgPool
MaxArgs == 2
\* WierszTrojkataPascala is constructed for every n in -RowMargin .. MaxRow
MaxRow == 34
RowMargin == 2
\* arab2rzym is called with every n in -ArabMargin .. MaxArab + ArabMargin
ArabMargin == 2
\* rzym2arab is called with every string of at most MaxLen upper-case glyphs
MaxLen == 5
\* ... and with every string of at most MaxCaseLen glyphs in either case
MaxCaseLen == 3
\* rzym2arab is stepped through for every string of at most MaxScanLen
\* upper-case glyphs and every string of at most MaxAnyLen characters of Chars
MaxScanLen == 4
MaxAnyLen == 3

-----------------------------------------------------------------------------
(* Characters.                                                             *)

Glyphs == {"I", "V", "X", "L", "C", "D", "M"}
LowerGlyphs == {"i", "v", "x", "l", "c", "d", "m"}
Digits == {"0", "1", "2", "3", "4", "5", "6", "7", "8", "9"}
\* the characters the inputs are drawn from: glyphs in both cases, two
\* digits, letters that are no glyph, a punctuation character
Chars == Glyphs \cup LowerGlyphs \cup {"1", "2", "Y", "Z", "a", "b", "-"}

\* <cctype> toupper in the "C" locale
toupper(c) ==
    CASE c = "i" -> "I" [] c = "v" -> "V" [] c = "x" -> "X" [] c = "l" -> "L"
      [] c = "c" -> "C" [] c = "d" -> "D" [] c = "m" -> "M"
      [] c = "a" -> "A" [] c = "b" -> "B"
      [] OTHER -> c

\* <cctype> isdigit
isdigit(c) == c \in Digits

-----------------------------------------------------------------------------
(* The symbol table.                                                       *)

liczbyArab == <<1000, 900, 500, 400, 100, 90, 50, 40, 10, 9, 5, 4, 1>>
liczbyRzym == << <<"M">>, <<"C", "M">>, <<"D">>, <<"C", "D">>, <<"C">>,
                 <<"X", "C">>, <<"L">>, <<"X", "L">>, <<"X">>, <<"I", "X">>,
                 <<"V">>, <<"I", "V">>, <<"I">> >>
TableSize == 13
MaxArab == 4000

\* ArabRzymException messages (their fixed part)
MsgRange == "Liczba z poza zakresu."
MsgEmpty == "Wartosc pusta."
MsgInvalid == "Nieprawidlowa liczba rzymska: "

-----------------------------------------------------------------------------
(* ArabRzym::isValidRzym, isValidArab, getArabic                           *)

RECURSIVE isValidRzymFrom(_, _)
\* the range-for of isValidRzym from position k on: false at the first
\* character that, upper-cased, is none of the seven glyphs
isValidRzymFrom(input, k) ==
    IF k >= Len(input) THEN TRUE
    ELSE LET rzym == toupper(input[k + 1])
         IN  IF rzym # "I" /\ rzym # "V" /\ rzym # "X" /\ rzym # "L"
                /\ rzym # "C" /\ rzym # "D" /\ rzym # "M"
             THEN FALSE
             ELSE isValidRzymFrom(input, k + 1)

\* mutant: the loop returns after its first character
isValidRzym_FirstOnly(input) ==
    IF input = <<>> THEN TRUE
    ELSE toupper(input[1]) \in {"I", "V", "X", "L", "C", "D", "M"}

isValidRzym(input) == isValidRzymFrom(input, 0)

RECURSIVE isValidArabFrom(_, _)
isValidArabFrom(input, k) ==
    IF k >= Len(input) THEN TRUE
    ELSE IF ~isdigit(input[k + 1]) THEN FALSE
    ELSE isValidArabFrom(input, k + 1)

isValidArab(input) == isValidArabFrom(input, 0)

RECURSIVE getArabicFrom(_, _, _)
\* the for loop of getArabic from j on, arabValue being the value so far
getArabicFrom(rzymDigit, j, arabValue) ==
    IF j >= TableSize THEN arabValue
    ELSE getArabicFrom(rzymDigit, j + 1,
                       IF liczbyRzym[j + 1] = rzymDigit
                       THEN liczbyArab[j + 1] ELSE arabValue)

\* mutant: the table scan starts one entry late and never sees "M"
getArabic_SkipFirst(rzymDigit) == getArabicFrom(rzymDigit, 1, 0)

getArabic(rzymDigit) == getArabicFrom(rzymDigit, 0, 0)

-----------------------------------------------------------------------------
(* ArabRzym::arab2rzym, one step of its control flow at a time.            *)
(* An activation is a record: pc, the argument n as passed, the local      *)
(* arab (the remaining amount), result, the for index i, and two           *)
(* observations: passes (how often the body of the outer while was         *)
(* entered) and emitted (the table indices appended so far).               *)

A2RCall(n) ==
    [pc |-> "entry", n |-> n, arab |-> n, result |-> <<>>, i |-> 0,
     passes |-> 0, emitted |-> <<>>, err |-> "none"]

\* mutant: the upper limit excluded
A2RRangeCheck_Excl(st) ==
    IF st.arab <= 0 \/ st.arab >= MaxArab
    THEN [st EXCEPT !.pc = "throw", !.err = MsgRange]
    ELSE [st EXCEPT !.pc = "while", !.result = <<>>]

\* line 50-52: the range check
A2RRangeCheck(st) ==
    IF st.arab <= 0 \/ st.arab > MaxArab
    THEN [st EXCEPT !.pc = "throw", !.err = MsgRange]
    ELSE [st EXCEPT !.pc = "while", !.result = <<>>]

\* line 55: the condition of the outer while
A2RWhile(st) ==
    IF st.arab # 0
    THEN [st EXCEPT !.pc = "for", !.i = 0, !.passes = @ + 1]
    ELSE [st EXCEPT !.pc = "return"]

\* mutant: an if in place of the inner while, each entry used at most once
\* in a pass
A2RInner_If(st) ==
    IF liczbyArab[st.i + 1] <= st.arab
    THEN [st EXCEPT !.arab = @ - liczbyArab[st.i + 1],
                    !.result = @ \o liczbyRzym[st.i + 1],
                    !.emitted = Append(@, st.i),
                    !.i = @ + 1]
    ELSE [st EXCEPT !.i = @ + 1]

\* line 57-60: the inner while at table index i; when its condition fails
\* the for loop advances (line 56)
A2RInner(st) ==
    IF liczbyArab[st.i + 1] <= st.arab
    THEN [st EXCEPT !.arab = @ - liczbyArab[st.i + 1],
                    !.result = @ \o liczbyRzym[st.i + 1],
                    !.emitted = Append(@, st.i)]
    ELSE [st EXCEPT !.i = @ + 1]

\* line 56: the for loop
A2RFor(st) ==
    IF st.i < TableSize THEN A2RInner(st) ELSE [st EXCEPT !.pc = "while"]

A2RStep(st) ==
    CASE st.pc = "entry" -> A2RRangeCheck(st)
      [] st.pc = "while" -> A2RWhile(st)
      [] st.pc = "for"   -> A2RFor(st)
      [] OTHER           -> st

A2RDone(st) == st.pc \in {"return", "throw"}

RECURSIVE A2RRun(_)
A2RRun(st) == IF A2RDone(st) THEN st ELSE A2RRun(A2RStep(st))

\* the call as a whole: err is the message of the exception thrown ("none"
\* when the call returns) and val the string returned
arab2rzym(arab) ==
    LET st == A2RRun(A2RCall(arab))
    IN  [err |-> st.err, val |-> st.result]

-----------------------------------------------------------------------------
(* ArabRzym::rzym2arab, one step of its control flow at a time.            *)
(* An activation: pc, input (the argument as passed), rzym (the local      *)
(* copy, upper-cased in place), the for index i, result, and the           *)
(* observations tokens (start, length and value of every addend) and       *)
(* reads (every index of rzym the scan read).                              *)

R2ACall(input) ==
    [pc |-> "entry", input |-> input, rzym |-> input, i |-> 0, result |-> 0,
     tokens |-> <<>>, reads |-> {}, err |-> "none", line |-> 0]

\* mutant: no check for the empty string
R2AEmptyCheck_Missing(st) == [st EXCEPT !.pc = "upper"]

\* line 69-71
R2AEmptyCheck(st) ==
    IF st.rzym = <<>>
    THEN [st EXCEPT !.pc = "throw", !.err = MsgEmpty, !.line = 70]
    ELSE [st EXCEPT !.pc = "upper"]

\* line 73-75
R2AUpper(st) ==
    [st EXCEPT !.pc = "valid",
               !.rzym = [k \in 1..Len(st.rzym) |-> toupper(st.rzym[k])]]

\* line 77-81
R2AValidCheck(st) ==
    IF ~isValidRzym(st.rzym)
    THEN [st EXCEPT !.pc = "throw", !.err = MsgInvalid, !.line = 78]
    ELSE [st EXCEPT !.pc = "scan", !.result = 0, !.i = 0]

\* std::string::operator[]: the character at pos < size(), and the
\* terminating '\0' at pos = size()
At(s, pos) == IF pos < Len(s) THEN s[pos + 1] ELSE "NUL"

\* mutant: the scan looks at the next character at the last position too
R2AHasNext_Always(st) == TRUE

\* line 86: whether the scan looks at the character after position i
R2AHasNext(st) == st.i # Len(st.rzym) - 1

\* line 83-93 and the i++ of line 82: one iteration of the scan
R2AScanBody(st) ==
    LET rzym_elem == <<At(st.rzym, st.i)>>
        single == getArabic(rzym_elem)
        hasNext == R2AHasNext(st)
        possible_rzym == IF hasNext THEN rzym_elem \o <<At(st.rzym, st.i + 1)>>
                         ELSE <<>>
        pair == hasNext /\ getArabic(possible_rzym) # 0
        arabValue == IF pair THEN getArabic(possible_rzym) ELSE single
        width == IF pair THEN 2 ELSE 1
    IN  [st EXCEPT !.result = @ + arabValue,
                   !.i = @ + width,
                   !.tokens = Append(@, [start |-> st.i, len |-> width,
                                         value |-> arabValue]),
                   !.reads = @ \cup {st.i}
                               \cup (IF hasNext THEN {st.i + 1} ELSE {})]

\* line 82: the for loop
R2AScan(st) ==
    IF st.i < Len(st.rzym) THEN R2AScanBody(st) ELSE [st EXCEPT !.pc = "post"]

\* mutant: the re-encoding is not compared with the input
R2APost_NoCompare(st) ==
    LET again == arab2rzym(st.result)
    IN  IF again.err # "none"
        THEN [st EXCEPT !.pc = "throw", !.err = again.err, !.line = 51]
        ELSE [st EXCEPT !.pc = "return"]

\* line 96-100: the round-trip validation; an exception of arab2rzym is not
\* caught here and leaves rzym2arab
R2APost(st) ==
    LET again == arab2rzym(st.result)
    IN  IF again.err # "none"
        THEN [st EXCEPT !.pc = "throw", !.err = again.err, !.line = 51]
        ELSE IF again.val # st.rzym
        THEN [st EXCEPT !.pc = "throw", !.err = MsgInvalid, !.line = 97]
        ELSE [st EXCEPT !.pc = "return"]

R2AStep(st) ==
    CASE st.pc = "entry" -> R2AEmptyCheck(st)
      [] st.pc = "upper" -> R2AUpper(st)
      [] st.pc = "valid" -> R2AValidCheck(st)
      [] st.pc = "scan"  -> R2AScan(st)
      [] st.pc = "post"  -> R2APost(st)
      [] OTHER           -> st

R2ADone(st) == st.pc \in {"return", "throw"}

RECURSIVE R2ARun(_)
R2ARun(st) == IF R2ADone(st) THEN st ELSE R2ARun(R2AStep(st))

rzym2arab(rzym) ==
    LET st == R2ARun(R2ACall(rzym))
    IN  [err |-> st.err, val |-> IF st.pc = "return" THEN st.result ELSE 0]

-----------------------------------------------------------------------------
(* Specification SpecA2R: arab2rzym on every n of the input range, then    *)
(* rzym2arab on the string it returned.                                    *)

NoCall == [pc |-> "none"]
NotYet == [err |-> "pending", val |-> 0]

\* the parts of the state a specification does not use
IdleRoman == enc = NoCall /\ back = NotYet /\ dec = NoCall
IdleClass == cls = NoCall
IdleMain == argv = <<>> /\ argi = 0 /\ out = <<>> /\ mainpc = "none"
IdlePascal == wiersze = <<>> /\ pytanie = NoCall

ArabInputs == (0 - ArabMargin) .. (MaxArab + ArabMargin)

InitA2R ==
    /\ enc \in {A2RCall(n) : n \in ArabInputs}
    /\ back = NotYet
    /\ dec = NoCall
    /\ IdleClass /\ IdleMain /\ IdlePascal

A2R_RangeCheck ==
    /\ enc.pc = "entry"
    /\ enc' = A2RStep(enc)
    /\ UNCHANGED <<back, dec, cls, mainVars, pascalVars>>

A2R_While ==
    /\ enc.pc = "while"
    /\ enc' = A2RStep(enc)
    /\ UNCHANGED <<back, dec, cls, mainVars, pascalVars>>

A2R_Append ==
    /\ enc.pc = "for" /\ enc.i < TableSize
    /\ liczbyArab[enc.i + 1] <= enc.arab
    /\ enc' = A2RStep(enc)
    /\ UNCHANGED <<back, dec, cls, mainVars, pascalVars>>

A2R_Advance ==
    /\ enc.pc = "for" /\ enc.i < TableSize
    /\ ~(liczbyArab[enc.i + 1] <= enc.arab)
    /\ enc' = A2RStep(enc)
    /\ UNCHANGED <<back, dec, cls, mainVars, pascalVars>>

A2R_ForEnd ==
    /\ enc.pc = "for" /\ enc.i >= TableSize
    /\ enc' = A2RStep(enc)
    /\ UNCHANGED <<back, dec, cls, mainVars, pascalVars>>

\* the caller passes the returned string to rzym2arab
A2R_RoundTrip ==
    /\ enc.pc = "return"
    /\ back = NotYet
    /\ back' = rzym2arab(enc.result)
    /\ UNCHANGED <<enc, dec, cls, mainVars, pascalVars>>

NextA2R ==
    \/ A2R_RangeCheck
    \/ A2R_While
    \/ A2R_Append
    \/ A2R_Advance
    \/ A2R_ForEnd
    \/ A2R_RoundTrip

SpecA2R == InitA2R /\ [][NextA2R]_vars

-----------------------------------------------------------------------------
(* Specification SpecR2A: rzym2arab on every string of the input sets.     *)

StringsOver(S, maxLen) == UNION {[1..k -> S] : k \in 0..maxLen}

ScanInputs ==
    StringsOver(Glyphs, MaxScanLen) \cup StringsOver(Chars, MaxAnyLen)

InitR2A ==
    /\ dec \in {R2ACall(s) : s \in ScanInputs}
    /\ enc = NoCall
    /\ back = NotYet
    /\ IdleClass /\ IdleMain /\ IdlePascal

R2AUnchanged == UNCHANGED <<enc, back, cls, mainVars, pascalVars>>

R2A_EmptyCheck ==
    /\ dec.pc = "entry"
    /\ dec' = R2AStep(dec)
    /\ R2AUnchanged

R2A_Upper ==
    /\ dec.pc = "upper"
    /\ dec' = R2AStep(dec)
    /\ R2AUnchanged

R2A_ValidCheck ==
    /\ dec.pc = "valid"
    /\ dec' = R2AStep(dec)
    /\ R2AUnchanged

\* an iteration that takes the two-character combination
R2A_ScanPair ==
    /\ dec.pc = "scan" /\ dec.i < Len(dec.rzym)
    /\ dec' = R2AStep(dec)
    /\ dec'.i = dec.i + 2
    /\ R2AUnchanged

\* an iteration that takes the single glyph
R2A_ScanSingle ==
    /\ dec.pc = "scan" /\ dec.i < Len(dec.rzym)
    /\ dec' = R2AStep(dec)
    /\ dec'.i = dec.i + 1
    /\ R2AUnchanged

R2A_ScanEnd ==
    /\ dec.pc = "scan" /\ ~(dec.i < Len(dec.rzym))
    /\ dec' = R2AStep(dec)
    /\ R2AUnchanged

R2A_Post ==
    /\ dec.pc = "post"
    /\ dec' = R2AStep(dec)
    /\ R2AUnchanged

NextR2A ==
    \/ R2A_EmptyCheck
    \/ R2A_Upper
    \/ R2A_ValidCheck
    \/ R2A_ScanPair
    \/ R2A_ScanSingle
    \/ R2A_ScanEnd
    \/ R2A_Post

SpecR2A == InitR2A /\ [][NextR2A]_vars

-----------------------------------------------------------------------------
(* Specification SpecR2ACall: rzym2arab as one call, on longer strings.    *)

CallInputs ==
    StringsOver(Glyphs, MaxLen)
        \cup StringsOver(Glyphs \cup LowerGlyphs, MaxCaseLen)

InitR2ACall ==
    /\ dec \in {R2ACall(s) : s \in CallInputs}
    /\ enc = NoCall
    /\ back = NotYet
    /\ IdleClass /\ IdleMain /\ IdlePascal

\* the call runs to its return or to the exception that leaves it
R2A_Call ==
    /\ dec.pc = "entry"
    /\ dec' = R2ARun(dec)
    /\ R2AUnchanged

NextR2ACall == R2A_Call

SpecR2ACall == InitR2ACall /\ [][NextR2ACall]_vars

-----------------------------------------------------------------------------
(* Specification SpecClassify: both classifiers on every string.           *)

InitClassify ==
    /\ cls \in {[pc |-> "call", input |-> s,
                 doneRzym |-> FALSE, validRzym |-> FALSE,
                 doneArab |-> FALSE, validArab |-> FALSE] :
                s \in StringsOver(Chars, MaxClassLen)}
    /\ IdleRoman /\ IdleMain /\ IdlePascal

Cls_isValidRzym ==
    /\ cls.pc = "call" /\ ~cls.doneRzym
    /\ cls' = [cls EXCEPT !.doneRzym = TRUE,
                          !.validRzym = isValidRzym(cls.input)]
    /\ UNCHANGED <<romanVars, mainVars, pascalVars>>

Cls_isValidArab ==
    /\ cls.pc = "call" /\ ~cls.doneArab
    /\ cls' = [cls EXCEPT !.doneArab = TRUE,
                          !.validArab = isValidArab(cls.input)]
    /\ UNCHANGED <<romanVars, mainVars, pascalVars>>

NextClassify == Cls_isValidRzym \/ Cls_isValidArab

SpecClassify == InitClassify /\ [][NextClassify]_vars

-----------------------------------------------------------------------------
(* The converter's main (Cpp/lista_2/main.cpp).                            *)

INT_MAX == 2147483647

DigitValue(c) ==
    CASE c = "0" -> 0 [] c = "1" -> 1 [] c = "2" -> 2 [] c = "3" -> 3
      [] c = "4" -> 4 [] c = "5" -> 5 [] c = "6" -> 6 [] c = "7" -> 7
      [] c = "8" -> 8 [] c = "9" -> 9

RECURSIVE stoiFrom(_, _, _)
\* the digits of str from position k on, acc being the value so far;
\* std::out_of_range as soon as the value no longer fits an int
stoiFrom(str, k, acc) ==
    IF k >= Len(str) \/ ~isdigit(str[k + 1])
    THEN [err |-> "none", val |-> acc]
    ELSE LET d == DigitValue(str[k + 1])
         IN  IF acc > (INT_MAX - d) \div 10
             THEN [err |-> "std::out_of_range", val |-> 0]
             ELSE stoiFrom(str, k + 1, acc * 10 + d)

\* std::stoi on a string that carries no sign and no leading blank
stoi(str) ==
    IF str = <<>> \/ ~isdigit(str[1])
    THEN [err |-> "std::invalid_argument", val |-> 0]
    ELSE stoiFrom(str, 0, 0)

MsgData == "Nieprawidlowa dana: "

\* line 11: for (char &c: input) c = toupper(c)
MainUpper(arg) == [k \in 1..Len(arg) |-> toupper(arg[k])]

\* what an iteration of the for loop ends with: a line on stdout (printf, or
\* the handler's "Error: ..." for a caught ArabRzymException), or an
\* exception the handler does not catch
Printed(text) == [kind |-> "line", line |-> text]
Caught(message) == [kind |-> "line", line |-> <<"Error: ", message>>]
Uncaught(what) == [kind |-> "uncaught", line |-> <<what>>]

\* line 13-15: the Roman branch
MainRoman(input) ==
    LET result == rzym2arab(input)
    IN  IF result.err # "none" THEN Caught(result.err)
        ELSE Printed(<<input, " -> ", result.val>>)

\* line 16-19: the Arabic branch; std::stoi throws a standard exception,
\* which is no ArabRzymException
MainArab(input) ==
    LET arab == stoi(input)
    IN  IF arab.err # "none" THEN Uncaught(arab.err)
        ELSE LET result == arab2rzym(arab.val)
             IN  IF result.err # "none" THEN Caught(result.err)
                 ELSE Printed(<<arab.val, " -> ", result.val>>)

\* line 9-25: the try block and its handler, for one argument
MainBody(arg) ==
    LET input == MainUpper(arg)
    IN  IF isValidRzym(input) THEN MainRoman(input)
        ELSE IF isValidArab(input) THEN MainArab(input)
        ELSE Caught(MsgData)

\* the arguments main is run with
ArgPool ==
    { <<"X", "I", "V">>, <<"i", "v">>, <<"I", "I", "I", "I">>, <<>>,
      <<"M", "M", "M", "M", "M">>,
      <<"1", "9", "9", "4">>, <<"0">>, <<"4", "0", "0", "1">>,
      <<"1", "2", "a">>,
      <<"2", "1", "4", "7", "4", "8", "3", "6", "4", "7">>,
      <<"2", "1", "4", "7", "4", "8", "3", "6", "4", "8">> }

InitMain ==
    /\ argv \in UNION {[1..k -> ArgPool] : k \in 0..MaxArgs}
    /\ argi = 0
    /\ out = <<>>
    /\ mainpc = "start"
    /\ IdleRoman /\ IdleClass /\ IdlePascal

MainUnchanged == UNCHANGED <<romanVars, cls, pascalVars>>

\* line 5-7: argc < 2, the exception is thrown outside any try block
Main_NoArgs ==
    /\ mainpc = "start" /\ Len(argv) + 1 < 2
    /\ mainpc' = "terminate"
    /\ UNCHANGED <<argv, argi, out>>
    /\ MainUnchanged

Main_Enter ==
    /\ mainpc = "start" /\ ~(Len(argv) + 1 < 2)
    /\ mainpc' = "loop" /\ argi' = 1
    /\ UNCHANGED <<argv, out>>
    /\ MainUnchanged

\* an iteration that ends with a line on stdout
Main_Iteration ==
    /\ mainpc = "loop" /\ argi < Len(argv) + 1
    /\ MainBody(argv[argi]).kind = "line"
    /\ out' = Append(out, [i |-> argi, text |-> MainBody(argv[argi]).line])
    /\ argi' = argi + 1
    /\ UNCHANGED <<argv, mainpc>>
    /\ MainUnchanged

\* an iteration that ends with an exception no handler catches:
\* std::terminate
Main_Uncaught ==
    /\ mainpc = "loop" /\ argi < Len(argv) + 1
    /\ MainBody(argv[argi]).kind = "uncaught"
    /\ mainpc' = "terminate"
    /\ UNCHANGED <<argv, argi, out>>
    /\ MainUnchanged

\* line 28: return 0
Main_Return ==
    /\ mainpc = "loop" /\ ~(argi < Len(argv) + 1)
    /\ mainpc' = "return 0"
    /\ UNCHANGED <<argv, argi, out>>
    /\ MainUnchanged

NextMain ==
    \/ Main_NoArgs
    \/ Main_Enter
    \/ Main_Iteration
    \/ Main_Uncaught
    \/ Main_Return

SpecMain == InitMain /\ [][NextMain]_vars

-----------------------------------------------------------------------------
(* WierszTrojkataPascala (lista_1/WierszTrojkataPascala.cpp).              *)
(* An object is a record: n (the constructor's argument), size, tablica    *)
(* (the new int[size], cell k at tablica[k + 1]), written (the cells that  *)
(* hold a value: new int[] leaves them uninitialised), and the activation  *)
(* of obliczenieNtegoWiersza on it: pc and the loop index i.  wiersze is   *)
(* the chain of live objects: wiersze[k + 1] is the poprzedni_wiersz of    *)
(* wiersze[k].                                                              *)

INT_MIN == 0 - INT_MAX - 1

\* int + int: ok tells whether the sum fits an int; val is the sum, or the
\* two's-complement wrap-around of it when it does not fit
IntAdd(a, b) ==
    IF a >= 0 /\ b >= 0 /\ a > INT_MAX - b
    THEN [ok |-> FALSE, val |-> (a - INT_MAX - 1) + (b - INT_MAX - 1)]
    ELSE IF a < 0 /\ b < 0 /\ a < INT_MIN - b
    THEN [ok |-> FALSE, val |-> (a + INT_MAX + 1) + (b + INT_MAX + 1)]
    ELSE [ok |-> TRUE, val |-> a + b]

\* line 9-10: size = n + 1; tablica = new int[size]; then line 11 enters
\* obliczenieNtegoWiersza(n)
NewWiersz(n) ==
    [n |-> n, size |-> n + 1, tablica |-> [k \in 1..(n + 1) |-> 0],
     written |-> {}, pc |-> "compute", i |-> 0]

\* tablica[k] = v
Store(w, k, v) ==
    [w EXCEPT !.tablica[k + 1] = v, !.written = @ \cup {k}]

\* whether reading tablica[k] of w is defined: inside the array and written
Readable(w, k) == k >= 0 /\ k < w.size /\ k \in w.written

\* mutant: the loop stops one cell early
LoopRuns_Short(w) == w.i < w.n

\* line 39: the condition of the for loop
LoopRuns(w) == w.i <= w.n

\* line 40: the cells set to 1
IsEdge(w) == w.i = 0 \/ w.i = w.n

Top == wiersze[Len(wiersze)]
SetTop(w) == [wiersze EXCEPT ![Len(wiersze)] = w]
\* the object whose loop reads the finished poprzedni_wiersz on top of it
Below == wiersze[Len(wiersze) - 1]
SetBelow(w) == [wiersze EXCEPT ![Len(wiersze) - 1] = w]

PascalInputs == (0 - RowMargin) .. MaxRow

InitPascal ==
    /\ wiersze = <<>>
    /\ pytanie \in {[pc |-> "new", n |-> n, m |-> 0, elem |-> 0,
                     err |-> "none", ub |-> FALSE] : n \in PascalInputs}
    /\ IdleRoman /\ IdleClass /\ IdleMain

PascalUnchanged == UNCHANGED <<romanVars, cls, mainVars>>

\* line 6-8: the constructor throws before it allocates
Ctor_Throw ==
    /\ pytanie.pc = "new" /\ pytanie.n < 0
    /\ pytanie' = [pytanie EXCEPT !.pc = "threw",
                                  !.err = "std::invalid_argument"]
    /\ UNCHANGED wiersze
    /\ PascalUnchanged

\* line 9-11
Ctor_Allocate ==
    /\ pytanie.pc = "new" /\ ~(pytanie.n < 0)
    /\ wiersze' = <<NewWiersz(pytanie.n)>>
    /\ pytanie' = [pytanie EXCEPT !.pc = "building"]
    /\ PascalUnchanged

\* line 26-29
Oblicz_Row0 ==
    /\ pytanie.pc = "building" /\ Top.pc = "compute" /\ Top.n = 0
    /\ wiersze' = SetTop([Store(Top, 0, 1) EXCEPT !.pc = "done"])
    /\ UNCHANGED pytanie
    /\ PascalUnchanged

\* line 31-35
Oblicz_Row1 ==
    /\ pytanie.pc = "building" /\ Top.pc = "compute" /\ Top.n = 1
    /\ wiersze' = SetTop([Store(Store(Top, 0, 1), 1, 1) EXCEPT !.pc = "done"])
    /\ UNCHANGED pytanie
    /\ PascalUnchanged

\* line 37: the local poprzedni_wiersz(n - 1) is constructed (n - 1 >= 1
\* here, its constructor does not throw)
Oblicz_Recurse ==
    /\ pytanie.pc = "building" /\ Top.pc = "compute"
    /\ Top.n # 0 /\ Top.n # 1
    /\ wiersze' = Append(SetTop([Top EXCEPT !.pc = "loop", !.i = 0]),
                         NewWiersz(Top.n - 1))
    /\ UNCHANGED pytanie
    /\ PascalUnchanged

\* the loop of line 39-45 runs once poprzedni_wiersz is constructed
LoopReady ==
    /\ pytanie.pc = "building"
    /\ Len(wiersze) >= 2 /\ Top.pc = "done" /\ Below.pc = "loop"

\* line 40-41
Loop_Edge ==
    /\ LoopReady /\ LoopRuns(Below) /\ IsEdge(Below)
    /\ wiersze' = SetBelow([Store(Below, Below.i, 1) EXCEPT !.i = @ + 1])
    /\ UNCHANGED pytanie
    /\ PascalUnchanged

\* reading tablica[k] of w: the value of the cell, or, for a cell outside
\* the array or without a value (undefined behaviour), any int
ReadCell(w, k) ==
    IF Readable(w, k) THEN {w.tablica[k + 1]} ELSE {INT_MIN, 0, 1, INT_MAX}

\* line 43: the sums poprzedni_wiersz.tablica[i - 1] +
\* poprzedni_wiersz.tablica[i] can evaluate to
Sums ==
    {IntAdd(a, b) : a \in ReadCell(Top, Below.i - 1), b \in ReadCell(Top, Below.i)}

ReadsDefined == Readable(Top, Below.i - 1) /\ Readable(Top, Below.i)

\* line 43, the sum fits an int
Loop_Sum ==
    /\ LoopReady /\ LoopRuns(Below) /\ ~IsEdge(Below)
    /\ \E sum \in Sums :
          /\ sum.ok
          /\ wiersze' = SetBelow([Store(Below, Below.i, sum.val)
                                     EXCEPT !.i = @ + 1])
    /\ pytanie' = [pytanie EXCEPT !.ub = @ \/ ~ReadsDefined]
    /\ PascalUnchanged

\* line 43, the sum does not fit an int (undefined behaviour): a build
\* that wraps around
Loop_SumWraps ==
    /\ LoopReady /\ LoopRuns(Below) /\ ~IsEdge(Below)
    /\ \E sum \in Sums :
          /\ ~sum.ok
          /\ wiersze' = SetBelow([Store(Below, Below.i, sum.val)
                                     EXCEPT !.i = @ + 1])
    /\ pytanie' = [pytanie EXCEPT !.ub = TRUE]
    /\ PascalUnchanged

\* line 43, the sum does not fit an int: a build that traps
Loop_SumTraps ==
    /\ LoopReady /\ LoopRuns(Below) /\ ~IsEdge(Below)
    /\ \E sum \in Sums : ~sum.ok
    /\ pytanie' = [pytanie EXCEPT !.pc = "trapped", !.ub = TRUE]
    /\ UNCHANGED wiersze
    /\ PascalUnchanged

\* line 46: the loop is over, poprzedni_wiersz is destroyed (line 14-16)
\* and obliczenieNtegoWiersza returns
Loop_End ==
    /\ LoopReady /\ ~LoopRuns(Below)
    /\ wiersze' = SubSeq(SetBelow([Below EXCEPT !.pc = "done"]),
                         1, Len(wiersze) - 1)
    /\ UNCHANGED pytanie
    /\ PascalUnchanged

\* line 12: the constructor the caller called returns
Ctor_Return ==
    /\ pytanie.pc = "building"
    /\ Len(wiersze) = 1 /\ Top.pc = "done"
    /\ pytanie' = [pytanie EXCEPT !.pc = "built"]
    /\ UNCHANGED wiersze
    /\ PascalUnchanged

\* line 18-23: MtyElementWiersza(m) on the constructed object
MtyElementWiersza(w, m) ==
    IF m < 0 \/ m >= w.size
    THEN [err |-> "std::out_of_range", elem |-> 0]
    ELSE [err |-> "none", elem |-> w.tablica[m + 1]]

Ask ==
    /\ pytanie.pc \in {"built", "asked"}
    /\ \E m \in (0 - RowMargin) .. (wiersze[1].size + RowMargin) :
          LET r == MtyElementWiersza(wiersze[1], m)
          IN  pytanie' = [pytanie EXCEPT !.pc = "asked", !.m = m,
                                         !.elem = r.elem, !.err = r.err]
    /\ UNCHANGED wiersze
    /\ PascalUnchanged

NextPascal ==
    \/ Ctor_Throw
    \/ Ctor_Allocate
    \/ Oblicz_Row0
    \/ Oblicz_Row1
    \/ Oblicz_Recurse
    \/ Loop_Edge
    \/ Loop_Sum
    \/ Loop_SumWraps
    \/ Loop_SumTraps
    \/ Loop_End
    \/ Ctor_Return
    \/ Ask

SpecPascal == InitPascal /\ [][NextPascal]_vars

-----------------------------------------------------------------------------
(* What the claims speak of, stated apart from the code's tables.          *)

\* the value of a single glyph and of a tabulated two-glyph combination
GlyphValue(c) ==
    CASE c = "I" -> 1 [] c = "V" -> 5 [] c = "X" -> 10 [] c = "L" -> 50
      [] c = "C" -> 100 [] c = "D" -> 500 [] c = "M" -> 1000

PairValue(a, b) ==
    CASE a = "I" /\ b = "V" -> 4   [] a = "I" /\ b = "X" -> 9
      [] a = "X" /\ b = "L" -> 40  [] a = "X" /\ b = "C" -> 90
      [] a = "C" /\ b = "D" -> 400 [] a = "C" /\ b = "M" -> 900
      [] OTHER -> 0

\* a letter in upper case
UpperOf(c) ==
    CASE c = "i" -> "I" [] c = "v" -> "V" [] c = "x" -> "X" [] c = "l" -> "L"
      [] c = "c" -> "C" [] c = "d" -> "D" [] c = "m" -> "M" [] OTHER -> c

UpperString(s) == [k \in 1..Len(s) |-> UpperOf(s[k])]

\* non-empty and made of the seven letters only, in any letter case
IsGlyphString(s) ==
    /\ s # <<>>
    /\ \A k \in 1..Len(s) : s[k] \in Glyphs \cup LowerGlyphs

RECURSIVE SumOfEmitted(_)
\* the sum of the values of the emitted table entries
SumOfEmitted(em) ==
    IF em = <<>> THEN 0
    ELSE liczbyArab[em[Len(em)] + 1] + SumOfEmitted(SubSeq(em, 1, Len(em) - 1))

RECURSIVE SumOfTokens(_)
SumOfTokens(toks) ==
    IF toks = <<>> THEN 0
    ELSE toks[Len(toks)].value + SumOfTokens(SubSeq(toks, 1, Len(toks) - 1))

MCMXCIV == <<"M", "C", "M", "X", "C", "I", "V">>

-----------------------------------------------------------------------------
(* Claims about arab2rzym (SpecA2R, FairSpecA2R).                          *)

\* C1: for every n with 1 <= n <= 3999, arab2rzym(n) returns without an
\* error, and rzym2arab of the returned string returns exactly n without an
\* error; arab2rzym(1994) is MCMXCIV and rzym2arab(MCMXCIV) is 1994.
C1_RoundTrip ==
    (enc.n >= 1 /\ enc.n <= 3999) =>
        /\ enc.pc # "throw"
        /\ back # NotYet => (back.err = "none" /\ back.val = enc.n)
        /\ (enc.n = 1994 /\ enc.pc = "return") => enc.result = MCMXCIV
        /\ (enc.n = 1994 /\ back # NotYet) => back = rzym2arab(MCMXCIV)

C1_Witness ==
    /\ enc.n = 1994 /\ enc.pc = "return" /\ enc.result = MCMXCIV
    /\ back = [err |-> "none", val |-> 1994]

\* C3: arab2rzym(n) throws "Liczba z poza zakresu." exactly when n <= 0 or
\* n > 4000, before it appends anything; for 0 < n <= 4000 (4000 included)
\* it throws nothing and what it returns is a non-empty string.
C3_RangeError ==
    /\ enc.pc = "throw" =>
          /\ enc.n <= 0 \/ enc.n > 4000
          /\ enc.err = MsgRange
          /\ enc.result = <<>> /\ enc.emitted = <<>> /\ enc.passes = 0
    /\ (enc.n <= 0 \/ enc.n > 4000) => enc.pc \in {"entry", "throw"}
    /\ (enc.n > 0 /\ enc.n <= 4000) => enc.err = "none"
    /\ enc.pc = "return" => (enc.n > 0 /\ enc.n <= 4000 /\ Len(enc.result) > 0)

C3_Witness ==
    /\ enc.n = 4000 /\ enc.pc = "return"
    /\ enc.result = <<"M", "M", "M", "M">>

\* C7: for every n with 0 < n <= 4000 the body of the outer while runs
\* exactly once: when its condition is evaluated after the pass the
\* remaining amount is 0, so the loop ends and arab2rzym returns; at every
\* step the values of the entries appended so far plus the remaining amount
\* are n; the entries are used in non-decreasing index order; at the return
\* the values of the emitted entries sum to n.
C7_Greedy ==
    enc.pc \in {"while", "for", "return"} =>
        /\ enc.n > 0 /\ enc.n <= 4000
        /\ enc.passes <= 1
        /\ enc.i <= 13
        /\ SumOfEmitted(enc.emitted) + enc.arab = enc.n
        /\ enc.arab >= 0
        /\ \A k \in 1..(Len(enc.emitted) - 1) : enc.emitted[k] <= enc.emitted[k + 1]
        /\ \A k \in 1..Len(enc.emitted) : enc.emitted[k] <= enc.i
        /\ (enc.pc = "while" /\ enc.passes = 1) => enc.arab = 0
        /\ enc.pc = "return" =>
              (enc.arab = 0 /\ enc.passes = 1 /\ SumOfEmitted(enc.emitted) = enc.n)

C7_Witness ==
    /\ enc.n = 3888 /\ enc.pc = "return" /\ enc.passes = 1
    /\ enc.emitted = <<0, 0, 0, 2, 4, 4, 4, 6, 8, 8, 8, 10, 12, 12, 12>>

-----------------------------------------------------------------------------
(* Claims about rzym2arab (SpecR2A).                                       *)

\* the canonical form of every number of the supported range
Canon == [k \in 1..4000 |-> arab2rzym(k).val]
CanonSet == {Canon[k] : k \in 1..4000}
\* no two numbers share a canonical form: the n of a canonical form is unique
CanonInjective == Cardinality(CanonSet) = 4000

\* C2: for every non-empty string s of the letters I,V,X,L,C,D,M in any
\* letter case, rzym2arab(s) returns a value v iff uppercase(s) is
\* arab2rzym(n) for some n of the supported range, and then v = n and
\* arab2rzym(v) = uppercase(s); every other such string ends in an error.
C2_AcceptsCanonical ==
    (IsGlyphString(dec.input) /\ R2ADone(dec)) =>
        LET u == UpperString(dec.input)
        IN  /\ dec.pc = "return" <=> u \in CanonSet
            /\ dec.pc = "return" =>
                  /\ dec.err = "none"
                  /\ dec.result \in 1..4000
                  /\ Canon[dec.result] = u /\ CanonInjective
                  /\ arab2rzym(dec.result) = [err |-> "none", val |-> u]
            /\ dec.pc = "throw" => dec.err # "none"

C2_Witness ==
    /\ dec.input = <<"x", "I", "v">>
    /\ dec.pc = "return" /\ dec.result = 14

\* C4: every non-empty string of the seven letters that rzym2arab does not
\* accept is rejected with the invalid-numeral error, whatever the decoded
\* sum; rzym2arab never ends with an error other than empty-input,
\* invalid-character (both checks of the input) or invalid-numeral.
C4_InvalidNumeralError ==
    /\ dec.err \in {"none", MsgEmpty, MsgInvalid}
    /\ (IsGlyphString(dec.input) /\ dec.pc = "throw") =>
          (dec.err = MsgInvalid /\ dec.line = 97)

\* C5: the empty string fails with "Wartosc pusta."; a non-empty string
\* with a character that is no glyph in either case fails at the character
\* check with the invalid-numeral message; both happen before any decoding;
\* a string that passes both checks is not rejected by them.
C5_InputChecks ==
    LET bad == \E k \in 1..Len(dec.input) :
                   UpperOf(dec.input[k]) \notin Glyphs
    IN  /\ dec.input = <<>> =>
              /\ dec.pc \in {"entry", "throw"}
              /\ dec.pc = "throw" => (dec.err = MsgEmpty /\ dec.line = 70)
        /\ (dec.input # <<>> /\ bad) =>
              /\ dec.pc \in {"entry", "upper", "valid", "throw"}
              /\ dec.pc = "throw" => (dec.err = MsgInvalid /\ dec.line = 78)
        /\ dec.line \in {70, 78} =>
              (dec.tokens = <<>> /\ dec.reads = {} /\ dec.result = 0)
        /\ (dec.input # <<>> /\ ~bad) => dec.line \notin {70, 78}

C5_Witness ==
    /\ dec.input = <<"a", "b", "c">>
    /\ dec.pc = "throw" /\ dec.err = MsgInvalid /\ dec.line = 78

\* whether the token at position start of string s is a tabulated pair
IsPairAt(s, start) ==
    start + 1 < Len(s) /\ PairValue(s[start + 1], s[start + 2]) # 0

\* C8: in the scan of a non-empty glyph-only string every addend is the
\* tabulated pair at its position when a next character exists and the two
\* form one of IV, IX, XL, XC, CD, CM (two characters consumed), and the
\* single glyph otherwise (one consumed); the addends tile the string from
\* position 0 to the scan index, which ends at the length; no index at or
\* past the end is read; the sum is the sum of the addends' values.
C8_Scan ==
    dec.pc \in {"scan", "post", "return"} \/ dec.line \in {51, 97} =>
        LET n == Len(dec.rzym)
            t == dec.tokens
        IN  /\ n > 0
            /\ \A k \in 1..Len(t) :
                  /\ t[k].start = IF k = 1 THEN 0
                                  ELSE t[k - 1].start + t[k - 1].len
                  /\ t[k].start < n
                  /\ t[k].len = IF IsPairAt(dec.rzym, t[k].start) THEN 2 ELSE 1
                  /\ t[k].value =
                        IF IsPairAt(dec.rzym, t[k].start)
                        THEN PairValue(dec.rzym[t[k].start + 1],
                                       dec.rzym[t[k].start + 2])
                        ELSE GlyphValue(dec.rzym[t[k].start + 1])
            /\ dec.i = IF t = <<>> THEN 0
                       ELSE t[Len(t)].start + t[Len(t)].len
            /\ dec.i <= n
            /\ dec.pc # "scan" => dec.i = n
            /\ 0..(dec.i - 1) \subseteq dec.reads
            /\ dec.reads \subseteq 0..(n - 1)
            /\ dec.result = SumOfTokens(t)

C8_Witness ==
    /\ dec.rzym = <<"M", "C", "M", "I">> /\ dec.pc = "post"
    /\ dec.result = 1901 /\ Len(dec.tokens) = 3

-----------------------------------------------------------------------------
(* Claims about the classifiers (SpecClassify) and main (SpecMain).        *)

\* C6: isValidRzym(s) is true iff every character of s, upper-cased, is one
\* of I,V,X,L,C,D,M, and isValidArab(s) is true iff every character of s is
\* an ASCII digit; both return (they throw nothing) for every string; so
\* both are true of the empty string, isValidRzym("XYZ") is false and
\* isValidArab("12a") is false.
C6_Classifiers ==
    LET s == cls.input
    IN  /\ cls.doneRzym =>
              /\ cls.validRzym <=> \A k \in 1..Len(s) : UpperOf(s[k]) \in Glyphs
              /\ s = <<>> => cls.validRzym
              /\ s = <<"X", "Y", "Z">> => ~cls.validRzym
        /\ cls.doneArab =>
              /\ cls.validArab <=>
                    \A k \in 1..Len(s) :
                        s[k] \in {"0", "1", "2", "3", "4", "5", "6", "7", "8", "9"}
              /\ s = <<>> => cls.validArab
              /\ s = <<"1", "2", "a">> => ~cls.validArab

C6_Witness ==
    /\ cls.input = <<"1", "2", "a">>
    /\ cls.doneRzym /\ ~cls.validRzym
    /\ cls.doneArab /\ ~cls.validArab

\* C9: with at least one argument, main handles the arguments in order,
\* every argument gives exactly one line of output, an error on one
\* argument does not keep the later ones from being handled, and the
\* program ends by returning 0.
C9_BatchTolerance ==
    Len(argv) >= 1 =>
        /\ mainpc # "terminate"
        /\ mainpc = "loop" => Len(out) = argi - 1
        /\ \A k \in 1..Len(out) : out[k].i = k
        /\ mainpc = "return 0" => Len(out) = Len(argv)

-----------------------------------------------------------------------------
(* Claim about WierszTrojkataPascala (SpecPascal).                         *)

RECURSIVE GCD(_, _)
GCD(a, b) == IF b = 0 THEN a ELSE GCD(b, a % b)

RECURSIVE Binomial(_, _)
\* C(n, k) by C(n, k) = C(n, k - 1) * (n - k + 1) / k, divided before it is
\* multiplied so that no intermediate value exceeds the result
Binomial(n, k) ==
    IF k = 0 THEN 1
    ELSE LET prev == Binomial(n, k - 1)
             g == GCD(prev, k)
         IN  (prev \div g) * ((n - k + 1) \div (k \div g))

\* the rows 0..33 of the triangle
Triangle == [n \in 0..33 |-> [k \in 0..n |-> Binomial(n, k)]]

\* object w holds row w.n completely
HoldsRow(w) ==
    /\ w.size = w.n + 1
    /\ Len(w.tablica) = w.size
    /\ w.written = 0..w.n
    /\ \A k \in 0..w.n : w.tablica[k + 1] = Triangle[w.n][k]
    /\ w.tablica[1] = 1 /\ w.tablica[w.n + 1] = 1
    /\ \A k \in 0..w.n : w.tablica[k + 1] = w.tablica[w.n - k + 1]

\* C10: for every n with 0 <= n <= 33 the construction ends with size =
\* n + 1 and tablica[i] = C(n, i) for every 0 <= i <= n (no cell read
\* before it is written, no sum that overflows, ends equal to 1, row
\* symmetric); MtyElementWiersza(m) returns tablica[m] for 0 <= m <= n and
\* throws out_of_range for m < 0 or m >= size; for n < 0 the constructor
\* throws invalid_argument and allocates nothing.
C10_PascalRow ==
    /\ pytanie.n < 0 =>
          /\ wiersze = <<>>
          /\ pytanie.pc \in {"new", "threw"}
          /\ pytanie.pc = "threw" => pytanie.err = "std::invalid_argument"
    /\ (pytanie.n >= 0 /\ pytanie.n <= 33) =>
          /\ pytanie.pc \notin {"threw", "trapped"}
          /\ ~pytanie.ub
          /\ \A d \in 1..Len(wiersze) :
                /\ wiersze[d].n = pytanie.n - d + 1
                /\ wiersze[d].pc = "done" => HoldsRow(wiersze[d])
          /\ pytanie.pc \in {"built", "asked"} =>
                (Len(wiersze) = 1 /\ wiersze[1].pc = "done")
          /\ pytanie.pc = "asked" =>
                IF pytanie.m >= 0 /\ pytanie.m <= pytanie.n
                THEN /\ pytanie.err = "none"
                     /\ pytanie.elem = Triangle[pytanie.n][pytanie.m]
                ELSE pytanie.err = "std::out_of_range"

C10_Witness ==
    /\ pytanie.n = 33 /\ pytanie.pc = "asked" /\ pytanie.m = 16
    /\ pytanie.elem = 1166803110 /\ pytanie.err = "none"
    /\ wiersze[1].size = 34

=============================================================================
